---------------------------- MODULE Spec2Model ----------------------------
(***************************************************************************)
(* A model of cleanCSV.py: the bounded input prompter (take_input), the    *)
(* header normalizer (standardize_headers), the IQR outlier detector       *)
(* (checkOutliers), the null resolution (handle_nulls), the duplicate      *)
(* resolution (drop_duplicates) and the pipeline of main().                *)
(*                                                                         *)
(* Representation.                                                         *)
(*  - A Python string is a sequence of one-character strings.              *)
(*  - Python's None is the value None below, distinct from every string.   *)
(*  - A cell of a DataFrame is <<>> (NaN, the null marker) or <<v>>.  A    *)
(*    numeric v is an integer count of hundredths (Scale), so that the     *)
(*    half-integers a median produces and round(x, 2) are exact.           *)
(*  - A DataFrame is a record: columns (the header strings), dtypes,       *)
(*    index (the row labels pandas keeps through a filter) and rows.       *)
(***************************************************************************)
EXTENDS Integers, Sequences, FiniteSets, TLC

VARIABLES
    \* ---- take_input on its own
    expected, tries, lines, taken,
    \* ---- standardize_headers on its own
    headers, new_headers, renamed, renamed_again,
    \* ---- checkOutliers / handle_nulls on one column
    frame, instruction, outlier_status, handled,
    \* ---- main()
    pc, argc, readable, df, cleanDF, duplicateCount, handle_duplicates,
    dupl_removed, beforeDupl, numericColumns, colIdx, null_cmd,
    input_attempts, beforeNulls, prompts, fatal, exitStatus, saved

promptVars == <<expected, tries, lines, taken>>
headerVars == <<headers, new_headers, renamed, renamed_again>>
columnVars == <<frame, instruction, outlier_status, handled>>
mainVars   == <<pc, argc, readable, df, cleanDF, duplicateCount,
                handle_duplicates, dupl_removed, beforeDupl, numericColumns,
                colIdx, null_cmd, input_attempts, beforeNulls, prompts, fatal,
                exitStatus, saved>>
vars == <<promptVars, headerVars, columnVars, mainVars>>

-----------------------------------------------------------------------------
(* Bounds of the model *)

MaxTries == 3
MaxHeaderLen == 4
MaxHeaders == 2
MaxLen == 5
MaxRows == 3

-----------------------------------------------------------------------------
(* Python values *)

None == <<"None">>
\* None where the other values are numbers (<<n>>).
NoneInt == <<>>
NaN == <<>>
Scale == 100

Range(s) == {s[i] : i \in 1..Len(s)}

-----------------------------------------------------------------------------
(* Strings *)

UpperToLower ==
    [c \in {"A", "B", "D", "F", "I", "K", "L", "R", "S", "T"} |->
        CASE c = "A" -> "a" [] c = "B" -> "b" [] c = "D" -> "d"
          [] c = "F" -> "f" [] c = "I" -> "i" [] c = "K" -> "k"
          [] c = "L" -> "l" [] c = "R" -> "r" [] c = "S" -> "s"
          [] c = "T" -> "t"]

\* str.lower()
str_lower(s) ==
    [i \in 1..Len(s) |->
        IF s[i] \in DOMAIN UpperToLower THEN UpperToLower[s[i]] ELSE s[i]]

Whitespace == {" ", "\t", "\n"}

RECURSIVE str_lstrip(_)
str_lstrip(s) ==
    IF s # <<>> /\ Head(s) \in Whitespace THEN str_lstrip(Tail(s)) ELSE s

RECURSIVE str_rstrip(_)
str_rstrip(s) ==
    IF s # <<>> /\ s[Len(s)] \in Whitespace
    THEN str_rstrip(SubSeq(s, 1, Len(s) - 1))
    ELSE s

\* str.strip()
str_strip(s) == str_rstrip(str_lstrip(s))

\* Mutant of str_replace_spaces: replace(' ', '_', 1), the first space only.
str_replace_first_space(s) ==
    [i \in 1..Len(s) |->
        IF s[i] = " " /\ (\A k \in 1..(i - 1) : s[k] # " ") THEN "_" ELSE s[i]]

\* str.replace(' ', '_')
str_replace_spaces(s) ==
    [i \in 1..Len(s) |-> IF s[i] = " " THEN "_" ELSE s[i]]

-----------------------------------------------------------------------------
(* take_input: the bounded input prompter *)

\* Mutant of take_input_loop: the line is compared as typed, not lowercased.
RECURSIVE take_input_loop_as_typed(_, _, _, _, _)
take_input_loop_as_typed(exp, n, ls, keeps, respCount) ==
    IF keeps \in Range(exp)
    THEN [value |-> keeps, attempts |-> NoneInt, prompts |-> respCount]
    ELSE IF respCount < n
    THEN take_input_loop_as_typed(exp, n, ls, ls[respCount + 1], respCount + 1)
    ELSE [value |-> None, attempts |-> <<respCount>>, prompts |-> respCount]

\* The while loop of take_input with the lines input() will return; `prompts'
\* counts the calls of input().
RECURSIVE take_input_loop(_, _, _, _, _)
take_input_loop(exp, n, ls, keeps, respCount) ==
    IF keeps \in Range(exp)
    THEN [value |-> keeps, attempts |-> NoneInt, prompts |-> respCount]
    ELSE IF respCount < n
    THEN take_input_loop(exp, n, ls, str_lower(ls[respCount + 1]), respCount + 1)
    ELSE [value |-> None, attempts |-> <<respCount>>, prompts |-> respCount]

take_input(exp, n, ls) == take_input_loop(exp, n, ls, None, 0)

ExpectedDuplicates == << <<"f","i","r","s","t">>, <<"l","a","s","t">> >>
ExpectedNulls ==
    << <<"i","m","p","u","t","e">>, <<"k","e","e","p">>, <<"d","r","o","p">> >>
Tries == 3

\* What a user may type at a prompt.
InputLines ==
    { <<"f","i","r","s","t">>, <<"F","i","r","s","t">>, <<"L","A","S","T">>,
      <<"i","m","p","u","t","e">>, <<"K","e","e","p">>, <<"d","r","o","p">>,
      <<"D","R","O","P">>, <<"f","i","r">>, <<"l","a","s","t"," ">>, <<>> }


\* A result not yet computed is <<>>, a computed result x is <<x>>.
Unset == <<>>

PromptInit ==
    /\ expected \in {ExpectedDuplicates, ExpectedNulls}
    /\ tries \in 0..MaxTries
    /\ lines \in [1..tries -> InputLines]
    /\ taken = Unset

PromptIdle ==
    /\ expected = <<>>
    /\ tries = 0
    /\ lines = <<>>
    /\ taken = Unset

\* One call of take_input(expected, tries, input_string) on the lines typed.
CallTakeInput ==
    /\ taken = Unset
    /\ taken' = <<take_input(expected, tries, lines)>>
    /\ UNCHANGED <<expected, tries, lines, headerVars, columnVars, mainVars>>

-----------------------------------------------------------------------------
(* standardize_headers: the header normalizer *)

\* header.strip().lower().replace(' ', '_')
standardize(header) == str_replace_spaces(str_lower(str_strip(header)))

\* A dict is the sequence of its <<key, value>> items in insertion order;
\* d[key] = value replaces the value of a key already present, in place.
dict_set(d, key, value) ==
    IF \E i \in 1..Len(d) : d[i][1] = key
    THEN [i \in 1..Len(d) |-> IF d[i][1] = key THEN <<key, value>> ELSE d[i]]
    ELSE Append(d, <<key, value>>)

dict_keys(d) == [i \in 1..Len(d) |-> d[i][1]]
dict_values(d) == [i \in 1..Len(d) |-> d[i][2]]
dict_get(d, key) == d[CHOOSE i \in 1..Len(d) : d[i][1] = key][2]

RECURSIVE standardize_headers_loop(_, _)
standardize_headers_loop(hs, standardized_headers) ==
    IF hs = <<>> THEN standardized_headers
    ELSE standardize_headers_loop(Tail(hs),
            dict_set(standardized_headers, Head(hs), standardize(Head(hs))))

standardize_headers(hs) == standardize_headers_loop(hs, <<>>)

\* DataFrame.rename(columns=mapping) on the column labels.
rename_columns(cols, mapping) ==
    [j \in 1..Len(cols) |->
        IF cols[j] \in Range(dict_keys(mapping))
        THEN dict_get(mapping, cols[j]) ELSE cols[j]]

HeaderChars == {" ", "A"}

RECURSIVE StringsUpTo(_)
StringsUpTo(n) ==
    IF n = 0 THEN {<<>>}
    ELSE LET shorter == StringsUpTo(n - 1)
         IN  shorter \cup {Append(s, c) : s \in shorter, c \in HeaderChars}

\* The header strings of the model; read_csv yields no empty label.
HeaderStrings == StringsUpTo(MaxHeaderLen) \ {<<>>}

Distinct(s) == \A i, j \in 1..Len(s) : i # j => s[i] # s[j]

\* read_csv makes the column labels of a file distinct.
HeadersInit ==
    /\ headers \in UNION {[1..n -> HeaderStrings] : n \in 1..MaxHeaders}
    /\ Distinct(headers)
    /\ new_headers = Unset
    /\ renamed = Unset
    /\ renamed_again = Unset

HeadersIdle ==
    /\ headers = <<>>
    /\ new_headers = Unset
    /\ renamed = Unset
    /\ renamed_again = Unset

\* new_headers = standardize_headers(columns); rename(columns=new_headers)
Standardize ==
    /\ headers # <<>>
    /\ new_headers = Unset
    /\ new_headers' = <<standardize_headers(headers)>>
    /\ renamed' = <<rename_columns(headers, standardize_headers(headers))>>
    /\ UNCHANGED <<headers, renamed_again, promptVars, columnVars, mainVars>>

\* The normalization applied to the labels it produced.
StandardizeAgain ==
    /\ renamed # Unset
    /\ renamed_again = Unset
    /\ renamed_again' =
          <<rename_columns(renamed[1], standardize_headers(renamed[1]))>>
    /\ UNCHANGED <<headers, new_headers, renamed, promptVars, columnVars,
                   mainVars>>

-----------------------------------------------------------------------------
(* DataFrames *)

EmptyFrame == [columns |-> <<>>, dtypes |-> <<>>, index |-> <<>>, rows |-> <<>>]

\* df[column] for the column at position j, as the sequence of its cells.
Series(d, j) == [i \in 1..Len(d.rows) |-> d.rows[i][j]]

\* The positions of the columns labelled `column'.
Positions(d, column) == {j \in 1..Len(d.columns) : d.columns[j] = column}

\* Series.dropna()
dropna(series) == SelectSeq(series, LAMBDA cell : cell # NaN)

\* Series.isnull().sum()
null_count(series) == Len(SelectSeq(series, LAMBDA cell : cell = NaN))

RECURSIVE Sum(_)
Sum(values) == IF values = <<>> THEN 0 ELSE Head(values) + Sum(Tail(values))

\* The numbers of the cells of a series without nulls.
Numbers(series) == [i \in 1..Len(series) |-> series[i][1]]

\* The rows of d at the positions in `mask', index labels kept.
FilterRows(d, mask) ==
    LET kept == SelectSeq([i \in 1..Len(d.rows) |-> i], LAMBDA i : i \in mask)
    IN  [d EXCEPT !.index = [k \in 1..Len(kept) |-> d.index[kept[k]]],
                  !.rows = [k \in 1..Len(kept) |-> d.rows[kept[k]]]]

\* Python's round(): num/den to the nearest integer, halves to the even one.
RoundHalfEven(num, den) ==
    LET q == num \div den
        r == num % den
    IN  IF 2 * r < den THEN q
        ELSE IF 2 * r > den THEN q + 1
        ELSE IF q % 2 = 0 THEN q ELSE q + 1

-----------------------------------------------------------------------------
(* checkOutliers: the IQR outlier detector *)

Percent == 100

\* np.percentile(values, q), default linear interpolation, times Percent:
\* the virtual index (n-1)*q/100 splits into a position and a fraction.
np_percentile(values, q) ==
    LET sorted == SortSeq(values, LAMBDA a, b : a < b)
        virtual == (Len(values) - 1) * q
        lo == (virtual \div Percent) + 1
        frac == virtual % Percent
        hi == IF lo < Len(values) THEN lo + 1 ELSE lo
    IN  sorted[lo] * Percent + (sorted[hi] - sorted[lo]) * frac

\* The boundaries of checkOutliers in units of 1/(2 * Percent) of a cell.
Boundaries(d, j) ==
    LET colSeries == Numbers(dropna(Series(d, j)))
        firstQuartile == np_percentile(colSeries, 25)
        thirdQuartile == np_percentile(colSeries, 75)
        iqr == thirdQuartile - firstQuartile
    IN  [lowerBoundary |-> 2 * firstQuartile - 3 * iqr,
         upperBoundary |-> 2 * thirdQuartile + 3 * iqr]

\* Mutant of cell_above: >= for >.
cell_above_or_on(cell, boundary) ==
    cell # NaN /\ 2 * Percent * cell[1] >= boundary

\* cell < boundary and cell > boundary: a comparison with NaN is False.
cell_below(cell, boundary) == cell # NaN /\ 2 * Percent * cell[1] < boundary
cell_above(cell, boundary) == cell # NaN /\ 2 * Percent * cell[1] > boundary

checkOutliers(d, j) ==
    LET b == Boundaries(d, j)
        outliers == FilterRows(d, {i \in 1..Len(d.rows) :
                        \/ cell_below(d.rows[i][j], b.lowerBoundary)
                        \/ cell_above(d.rows[i][j], b.upperBoundary)})
        outlierCount == Len(outliers.rows)
    IN  IF outlierCount > 0 THEN TRUE ELSE FALSE

-----------------------------------------------------------------------------
(* handle_nulls: the null resolution *)

\* np.median(series): NaN as soon as the data holds a NaN; rounded to 2
\* decimals, which is a whole number of hundredths.
np_median_round2(series) ==
    IF \E i \in 1..Len(series) : series[i] = NaN THEN NaN
    ELSE LET sorted == SortSeq(Numbers(series), LAMBDA a, b : a < b)
             n == Len(sorted)
             a == sorted[(n + 1) \div 2]
             b == sorted[(n \div 2) + 1]
         IN  <<RoundHalfEven(a + b, 2)>>

\* round(np.mean(series)): np.mean hands over to Series.mean(), which skips
\* the nulls; round() without digits gives a whole number.
np_mean_round(series) ==
    LET values == Numbers(dropna(series))
    IN  <<RoundHalfEven(Sum(values), Len(values) * Scale) * Scale>>

\* Series.fillna(value); filling with NaN changes nothing.
fillna(series, value) ==
    [i \in 1..Len(series) |-> IF series[i] = NaN THEN value ELSE series[i]]

\* d with the cells of the column at j replaced.
SetColumn(d, j, series) ==
    [d EXCEPT !.rows = [i \in 1..Len(d.rows) |->
                           [d.rows[i] EXCEPT ![j] = series[i]]]]

\* df.dropna(subset=[column])
dropna_subset(d, j) == FilterRows(d, {i \in 1..Len(d.rows) : d.rows[i][j] # NaN})

IndexLabel == <<"i","n","d","e","x">>

\* DataFrame.reset_index(): the old index becomes the first column.
reset_index(d) ==
    [columns |-> <<IndexLabel>> \o d.columns,
     dtypes |-> <<"num">> \o d.dtypes,
     index |-> [i \in 1..Len(d.rows) |-> i - 1],
     rows |-> [i \in 1..Len(d.rows) |-> <<<<d.index[i] * Scale>>>> \o d.rows[i]]]

\* df[column] = value for a DataFrame value: the value must have as many
\* columns as the key selects, else ValueError; its rows align on the index.
setitem_frame(d, j, value) ==
    IF Len(value.columns) # 1
    THEN [raised |-> TRUE, df |-> d, imputer |-> NaN]
    ELSE [raised |-> FALSE, imputer |-> NaN,
          df |-> SetColumn(d, j,
                   [i \in 1..Len(d.rows) |->
                      IF \E k \in 1..Len(value.rows) : value.index[k] = d.index[i]
                      THEN value.rows[CHOOSE k \in 1..Len(value.rows) :
                                         value.index[k] = d.index[i]][1]
                      ELSE NaN])]

Drop == <<"d","r","o","p">>
Impute == <<"i","m","p","u","t","e">>
Keep == <<"k","e","e","p">>

\* handle_nulls(instruction, df, column), the column at position j.
handle_nulls(instr, d, j) ==
    IF instr = Drop
    THEN setitem_frame(d, j, reset_index(dropna_subset(d, j)))
    ELSE LET outlier == checkOutliers(d, j)
             imputer == IF outlier THEN np_median_round2(Series(d, j))
                        ELSE np_mean_round(Series(d, j))
         IN  [raised |-> FALSE, imputer |-> imputer,
              df |-> SetColumn(d, j, fillna(Series(d, j), imputer))]

\* The numbers of a column of the model, in cells.
CellValues == {NaN, <<0>>, <<1 * Scale>>, <<5 * Scale>>, <<6 * Scale>>}

ColumnLabel == <<"a">>

\* A frame of one numeric column with at least one value: main() drops the
\* columns that hold only nulls before anything reads a column.
ColumnInit ==
    /\ \E n \in 1..MaxLen : \E cells \in [1..n -> CellValues] :
          /\ \E i \in 1..n : cells[i] # NaN
          /\ frame = [columns |-> <<ColumnLabel>>, dtypes |-> <<"num">>,
                      index |-> [i \in 1..n |-> i - 1],
                      rows |-> [i \in 1..n |-> <<cells[i]>>]]
    /\ instruction = None
    /\ outlier_status = Unset
    /\ handled = Unset

ColumnIdle ==
    /\ frame = EmptyFrame
    /\ instruction = None
    /\ outlier_status = Unset
    /\ handled = Unset

CallCheckOutliers ==
    /\ frame # EmptyFrame
    /\ outlier_status = Unset
    /\ outlier_status' = <<checkOutliers(frame, 1)>>
    /\ UNCHANGED <<frame, instruction, handled, promptVars, headerVars, mainVars>>

\* handle_nulls is called with 'impute', 'drop' or, after three wrong
\* inputs, None, and only for a column that holds a null.
CallHandleNulls ==
    /\ frame # EmptyFrame
    /\ handled = Unset
    /\ null_count(Series(frame, 1)) > 0
    /\ \E instr \in {Impute, Drop, None} :
          /\ instruction' = instr
          /\ handled' = <<handle_nulls(instr, frame, 1)>>
    /\ UNCHANGED <<frame, outlier_status, promptVars, headerVars, mainVars>>

-----------------------------------------------------------------------------
(* drop_duplicates: the duplicate resolution *)

\* DataFrame.empty: an axis of length 0.
empty(d) == Len(d.columns) = 0 \/ Len(d.rows) = 0

\* df.duplicated().sum(): the rows equal, cell by cell and NaN to NaN, to a
\* row before them; an empty frame has an empty result.
duplicated_sum(d) ==
    IF empty(d) THEN 0
    ELSE Cardinality({i \in 1..Len(d.rows) :
                        \E k \in 1..(i - 1) : d.rows[k] = d.rows[i]})

First == <<"f","i","r","s","t">>
Last == <<"l","a","s","t">>

\* DataFrame.drop_duplicates(keep=keep_inst); pandas returns a copy of an
\* empty frame (here: rows left without any column) as it is.
pandas_drop_duplicates(d, keep_inst) ==
    IF empty(d) THEN d
    ELSE IF keep_inst = First
    THEN FilterRows(d, {i \in 1..Len(d.rows) :
                          ~ \E k \in 1..(i - 1) : d.rows[k] = d.rows[i]})
    ELSE FilterRows(d, {i \in 1..Len(d.rows) :
                          ~ \E k \in (i + 1)..Len(d.rows) : d.rows[k] = d.rows[i]})

\* drop_duplicates(df, keep_inst) -> (df, dupl_removed)
drop_duplicates(d, keep_inst) ==
    LET before_dupl_drop == Len(d.rows)
        dropped == pandas_drop_duplicates(d, keep_inst)
        after_dupl_drop == Len(dropped.rows)
    IN  [df |-> dropped, dupl_removed |-> before_dupl_drop - after_dupl_drop]

-----------------------------------------------------------------------------
(* main *)

\* The columns of d at the positions in `kept', in order.
SelectColumns(d, kept) ==
    LET js == SelectSeq([j \in 1..Len(d.columns) |-> j], LAMBDA j : j \in kept)
    IN  [d EXCEPT !.columns = [k \in 1..Len(js) |-> d.columns[js[k]]],
                  !.dtypes = [k \in 1..Len(js) |-> d.dtypes[js[k]]],
                  !.rows = [i \in 1..Len(d.rows) |->
                              [k \in 1..Len(js) |-> d.rows[i][js[k]]]]]

\* [column for column in cleanDF.columns if cleanDF[column].isnull().all()]
nullCols(d) ==
    {j \in 1..Len(d.columns) : \A i \in 1..Len(d.rows) : d.rows[i][j] = NaN}

\* cleanDF.drop(columns=nullCols)
drop_null_columns(d) == SelectColumns(d, (1..Len(d.columns)) \ nullCols(d))

\* select_dtypes(include=['int64', 'float64']).columns.to_list()
select_numeric(d) ==
    LET js == SelectSeq([j \in 1..Len(d.columns) |-> j],
                        LAMBDA j : d.dtypes[j] = "num")
    IN  [k \in 1..Len(js) |-> d.columns[js[k]]]

\* What take_input can return at the two prompts of main, over all the lines
\* a user may type.
DuplicateAnswers ==
    {take_input(ExpectedDuplicates, Tries, ls) : ls \in [1..Tries -> InputLines]}
NullAnswers ==
    {take_input(ExpectedNulls, Tries, ls) : ls \in [1..Tries -> InputLines]}

\* The column layouts of the files of the model.
Schemas ==
    { [columns |-> << <<"A">>, <<"b">> >>, dtypes |-> <<"num", "num">>],
      [columns |-> << <<"A">>, <<"a">> >>, dtypes |-> <<"num", "num">>],
      [columns |-> << <<" ","A"," ","B">>, <<"b">> >>,
       dtypes |-> <<"str", "num">>],
      [columns |-> << <<"B"," ">>, <<"b">> >>, dtypes |-> <<"str", "str">>] }

CellsOf(dtype) ==
    IF dtype = "num" THEN {NaN, <<0>>, <<1 * Scale>>} ELSE {NaN, <<"x">>}

\* The files of the model: a layout and up to MaxRows rows.
Frames ==
    UNION { UNION { { [columns |-> sch.columns, dtypes |-> sch.dtypes,
                       index |-> [i \in 1..n |-> i - 1],
                       rows |-> [i \in 1..n |-> <<c1[i], c2[i]>>]] :
                      c1 \in [1..n -> CellsOf(sch.dtypes[1])],
                      c2 \in [1..n -> CellsOf(sch.dtypes[2])] } :
                    n \in 0..MaxRows } :
            sch \in Schemas }

MainIdle ==
    /\ pc = "Idle"
    /\ argc = 0
    /\ readable = FALSE
    /\ df = EmptyFrame
    /\ cleanDF = EmptyFrame
    /\ duplicateCount = 0
    /\ handle_duplicates = None
    /\ dupl_removed = 0
    /\ beforeDupl = EmptyFrame
    /\ numericColumns = <<>>
    /\ colIdx = 0
    /\ null_cmd = None
    /\ input_attempts = NoneInt
    /\ beforeNulls = EmptyFrame
    /\ prompts = 0
    /\ fatal = {}
    /\ exitStatus = Unset
    /\ saved = Unset

\* The process is started with argc command-line words (the script name
\* included) on a path that read_csv can or cannot load.
MainInit ==
    /\ \/ argc \in {1, 3} /\ readable = FALSE /\ df = EmptyFrame
       \/ argc = 2 /\ readable = FALSE /\ df = EmptyFrame
       \/ argc = 2 /\ readable = TRUE /\ df \in Frames
    /\ pc = "Start"
    /\ cleanDF = EmptyFrame
    /\ duplicateCount = 0
    /\ handle_duplicates = None
    /\ dupl_removed = 0
    /\ beforeDupl = EmptyFrame
    /\ numericColumns = <<>>
    /\ colIdx = 0
    /\ null_cmd = None
    /\ input_attempts = NoneInt
    /\ beforeNulls = EmptyFrame
    /\ prompts = 0
    /\ fatal = {}
    /\ exitStatus = Unset
    /\ saved = Unset

\* sys.exit(status): sys.exit() without a status exits with 0.
Exit(status, why) ==
    /\ pc' = "Exited"
    /\ exitStatus' = <<status>>
    /\ fatal' = fatal \cup {why}

\* An exception nothing catches ends the process with status 1.
Crash ==
    /\ pc' = "Crashed"
    /\ exitStatus' = <<1>>

\* if input_attempts:
Truthy(attempts) == attempts # NoneInt /\ attempts[1] # 0

\* Lines 11-17: anything but one argument prints the usage and exits 1.
CheckArguments ==
    /\ pc = "Start"
    /\ IF argc # 2
       THEN Exit(1, "arguments")
       ELSE pc' = "Started" /\ UNCHANGED <<exitStatus, fatal>>
    /\ UNCHANGED <<argc, readable, df, cleanDF, duplicateCount,
                   handle_duplicates, dupl_removed, beforeDupl, numericColumns,
                   colIdx, null_cmd, input_attempts, beforeNulls, prompts, saved,
                   promptVars, headerVars, columnVars>>

\* Lines 147-152: read_csv; any exception is logged and sys.exit() called.
Load ==
    /\ pc = "Started"
    /\ IF ~ readable
       THEN Exit(0, "load")
       ELSE pc' = "Loaded" /\ UNCHANGED <<exitStatus, fatal>>
    /\ UNCHANGED <<argc, readable, df, cleanDF, duplicateCount,
                   handle_duplicates, dupl_removed, beforeDupl, numericColumns,
                   colIdx, null_cmd, input_attempts, beforeNulls, prompts, saved,
                   promptVars, headerVars, columnVars>>

\* Lines 155-164: a file without rows ends the run; else the data is copied
\* and profiled (profile_data only reports).
Profile ==
    /\ pc = "Loaded"
    /\ IF Len(df.rows) = 0
       THEN Exit(0, "empty") /\ UNCHANGED cleanDF
       ELSE /\ cleanDF' = df
            /\ pc' = "Profiled"
            /\ UNCHANGED <<exitStatus, fatal>>
    /\ UNCHANGED <<argc, readable, df, duplicateCount, handle_duplicates,
                   dupl_removed, beforeDupl, numericColumns, colIdx, null_cmd,
                   input_attempts, beforeNulls, prompts, saved,
                   promptVars, headerVars, columnVars>>

\* Lines 167-170
DropNullColumns ==
    /\ pc = "Profiled"
    /\ cleanDF' = drop_null_columns(cleanDF)
    /\ pc' = "AllNullColumnsDropped"
    /\ UNCHANGED <<argc, readable, df, duplicateCount, handle_duplicates,
                   dupl_removed, beforeDupl, numericColumns, colIdx, null_cmd,
                   input_attempts, beforeNulls, prompts, fatal, exitStatus, saved,
                   promptVars, headerVars, columnVars>>

\* Lines 177-182
NormalizeHeaders ==
    /\ pc = "AllNullColumnsDropped"
    /\ cleanDF' = [cleanDF EXCEPT !.columns =
                      rename_columns(cleanDF.columns,
                                     standardize_headers(cleanDF.columns))]
    /\ pc' = "HeadersNormalized"
    /\ UNCHANGED <<argc, readable, df, duplicateCount, handle_duplicates,
                   dupl_removed, beforeDupl, numericColumns, colIdx, null_cmd,
                   input_attempts, beforeNulls, prompts, fatal, exitStatus, saved,
                   promptVars, headerVars, columnVars>>

\* Lines 185-200: the duplicates are counted on df, the data as loaded; the
\* prompt, the removal on cleanDF, and the list of the numeric columns.
ResolveDuplicates ==
    /\ pc = "HeadersNormalized"
    /\ duplicateCount' = duplicated_sum(df)
    /\ beforeDupl' = cleanDF
    /\ IF duplicated_sum(df) > 0
       THEN \E answer \in DuplicateAnswers :
              /\ prompts' = prompts + 1
              /\ handle_duplicates' = answer.value
              /\ input_attempts' = answer.attempts
              /\ IF Truthy(answer.attempts)
                 THEN /\ Exit(0, "duplicate_retries")
                      /\ UNCHANGED <<cleanDF, dupl_removed, numericColumns, colIdx>>
                 ELSE LET r == drop_duplicates(cleanDF, answer.value)
                      IN  /\ cleanDF' = r.df
                          /\ dupl_removed' = r.dupl_removed
                          /\ numericColumns' = select_numeric(r.df)
                          /\ colIdx' = 1
                          /\ pc' = "DuplicatesResolved"
                          /\ UNCHANGED <<exitStatus, fatal>>
       ELSE /\ numericColumns' = select_numeric(cleanDF)
            /\ colIdx' = 1
            /\ pc' = "DuplicatesResolved"
            /\ UNCHANGED <<cleanDF, handle_duplicates, dupl_removed,
                           input_attempts, prompts, exitStatus, fatal>>
    /\ UNCHANGED <<argc, readable, df, null_cmd, beforeNulls, saved,
                   promptVars, headerVars, columnVars>>

AtLoopHead == pc \in {"DuplicatesResolved", "NullsResolvedPerColumn"}

\* Lines 202-219, one column of the loop up to the answer of the prompt.  A
\* label that two columns carry selects a frame, whose null count has no
\* truth value: ValueError.  Three wrong inputs are logged, nothing more.
PromptNulls ==
    /\ AtLoopHead
    /\ colIdx <= Len(numericColumns)
    /\ LET column == numericColumns[colIdx]
           at == Positions(cleanDF, column)
       IN  IF Cardinality(at) # 1
           THEN /\ Crash
                /\ UNCHANGED <<colIdx, null_cmd, input_attempts, prompts, fatal>>
           ELSE LET j == CHOOSE k \in at : TRUE
                    nullCount == null_count(Series(cleanDF, j))
                IN  IF nullCount = 0
                    THEN /\ colIdx' = colIdx + 1
                         /\ UNCHANGED <<pc, null_cmd, input_attempts, prompts,
                                        fatal, exitStatus>>
                    ELSE \E answer \in NullAnswers :
                           /\ prompts' = prompts + 1
                           /\ null_cmd' = answer.value
                           /\ input_attempts' = answer.attempts
                           /\ fatal' = IF Truthy(answer.attempts)
                                       THEN fatal \cup {"null_retries"}
                                       ELSE fatal
                           /\ pc' = "NullPrompted"
                           /\ UNCHANGED <<colIdx, exitStatus>>
    /\ UNCHANGED <<argc, readable, df, cleanDF, duplicateCount,
                   handle_duplicates, dupl_removed, beforeDupl, numericColumns,
                   beforeNulls, saved, promptVars, headerVars, columnVars>>

\* Lines 221-225: 'keep' goes on to the next column, anything else goes to
\* handle_nulls.
ResolveNulls ==
    /\ pc = "NullPrompted"
    /\ beforeNulls' = cleanDF
    /\ LET column == numericColumns[colIdx]
           j == CHOOSE k \in Positions(cleanDF, column) : TRUE
       IN  IF null_cmd = Keep
           THEN /\ pc' = "NullsResolvedPerColumn"
                /\ colIdx' = colIdx + 1
                /\ UNCHANGED <<cleanDF, exitStatus>>
           ELSE LET r == handle_nulls(null_cmd, cleanDF, j)
                IN  IF r.raised
                    THEN Crash /\ UNCHANGED <<cleanDF, colIdx>>
                    ELSE /\ cleanDF' = r.df
                         /\ pc' = "NullsResolvedPerColumn"
                         /\ colIdx' = colIdx + 1
                         /\ UNCHANGED exitStatus
    /\ UNCHANGED <<argc, readable, df, duplicateCount, handle_duplicates,
                   dupl_removed, beforeDupl, numericColumns, null_cmd,
                   input_attempts, prompts, fatal, saved,
                   promptVars, headerVars, columnVars>>

\* Line 228 and the end of the script: status 0.
Save ==
    /\ AtLoopHead
    /\ colIdx > Len(numericColumns)
    /\ saved' = <<cleanDF>>
    /\ pc' = "Saved"
    /\ exitStatus' = <<0>>
    /\ UNCHANGED <<argc, readable, df, cleanDF, duplicateCount,
                   handle_duplicates, dupl_removed, beforeDupl, numericColumns,
                   colIdx, null_cmd, input_attempts, beforeNulls, prompts, fatal,
                   promptVars, headerVars, columnVars>>

-----------------------------------------------------------------------------
(* Specifications *)

\* main() on a file of the model.
Init == PromptIdle /\ HeadersIdle /\ ColumnIdle /\ MainInit

Next ==
    \/ CheckArguments
    \/ Load
    \/ Profile
    \/ DropNullColumns
    \/ NormalizeHeaders
    \/ ResolveDuplicates
    \/ PromptNulls
    \/ ResolveNulls
    \/ Save

Spec == Init /\ [][Next]_vars

\* take_input on its own, for every retry budget up to MaxTries.
InitPrompt == PromptInit /\ HeadersIdle /\ ColumnIdle /\ MainIdle
NextPrompt == CallTakeInput
SpecPrompt == InitPrompt /\ [][NextPrompt]_vars

\* standardize_headers on its own.
InitHeaders == PromptIdle /\ HeadersInit /\ ColumnIdle /\ MainIdle
NextHeaders == Standardize \/ StandardizeAgain
SpecHeaders == InitHeaders /\ [][NextHeaders]_vars

\* checkOutliers and handle_nulls on one column.
InitColumn == PromptIdle /\ HeadersIdle /\ ColumnInit /\ MainIdle
NextColumn == CallCheckOutliers \/ CallHandleNulls
SpecColumn == InitColumn /\ [][NextColumn]_vars

-----------------------------------------------------------------------------
(* Properties *)

\* A line matches an option exactly but for the case of its letters.
MatchesOption(line, exp) ==
    \E o \in 1..Len(exp) :
        /\ Len(line) = Len(exp[o])
        /\ \A c \in 1..Len(line) :
              \/ line[c] = exp[o][c]
              \/ line[c] \in DOMAIN UpperToLower /\ UpperToLower[line[c]] = exp[o][c]

Quartile4(sorted, k) ==
    LET n == Len(sorted)
        t == (n - 1) * k
        below == (t \div 4) + 1
        above == IF below < n THEN below + 1 ELSE below
    IN  4 * sorted[below] + (t % 4) * (sorted[above] - sorted[below])

NonNullValues(d, j) ==
    LET at == SelectSeq([i \in 1..Len(d.rows) |-> i], LAMBDA i : d.rows[i][j] # NaN)
    IN  [k \in 1..Len(at) |-> d.rows[at[k]][j][1]]

\* Eight times Q1 - 1.5*IQR and Q3 + 1.5*IQR of the non-null values.
Lower8(d, j) ==
    LET sorted == SortSeq(NonNullValues(d, j), LAMBDA a, b : a < b)
    IN  2 * Quartile4(sorted, 1) - 3 * (Quartile4(sorted, 3) - Quartile4(sorted, 1))
Upper8(d, j) ==
    LET sorted == SortSeq(NonNullValues(d, j), LAMBDA a, b : a < b)
    IN  2 * Quartile4(sorted, 3) + 3 * (Quartile4(sorted, 3) - Quartile4(sorted, 1))

HasOutlier(d, j) ==
    \E v \in Range(NonNullValues(d, j)) : 8 * v < Lower8(d, j) \/ 8 * v > Upper8(d, j)

\* C8: checkOutliers is true exactly when a non-null value lies strictly
\* outside [Q1 - 1.5*IQR, Q3 + 1.5*IQR], the quartiles interpolated linearly
\* on the non-null values; a column of equal values yields false.
C8_StrictlyOutside ==
    outlier_status # Unset =>
        /\ outlier_status[1] = HasOutlier(frame, 1)
        /\ Cardinality(Range(NonNullValues(frame, 1))) = 1 => outlier_status[1] = FALSE

\* A column with a null, a spread, and its largest value exactly on the
\* upper boundary: no outlier.
C8_Witness ==
    /\ outlier_status = <<FALSE>>
    /\ null_count(Series(frame, 1)) > 0
    /\ Upper8(frame, 1) > Lower8(frame, 1)
    /\ \E v \in Range(NonNullValues(frame, 1)) : 8 * v = Upper8(frame, 1)

\* C9: normalizing the normalized headers changes none of them, and the
\* mapping lists the headers in their original order.
C9_Idempotent ==
    /\ new_headers # Unset => dict_keys(new_headers[1]) = headers
    /\ renamed_again # Unset => renamed_again[1] = renamed[1]

\* Two headers, one with spaces around and inside, normalized twice.
C9_Witness ==
    /\ renamed_again # Unset
    /\ Len(headers) = 2
    /\ \E i \in 1..2 : headers[i] = <<" ", "A", " ", "A">>
    /\ \A i \in 1..2 : renamed[1][i] # headers[i]

\* The duplicates of the data as loaded: the rows less the distinct rows.
LoadedDuplicates == Len(df.rows) - Cardinality(Range(df.rows))

\* Each group of equal rows keeps its first (last) row, the survivors keep
\* their order, and as many rows are removed as the loaded data had
\* duplicates.
KeepPolicyHolds ==
    LET before == beforeDupl.rows
        at(k) == cleanDF.index[k] + 1
        m == Len(cleanDF.rows)
    IN  /\ \A k \in 1..m : cleanDF.rows[k] = before[at(k)]
        /\ \A k \in 1..(m - 1) : at(k) < at(k + 1)
        /\ \A i \in 1..Len(before) :
              Cardinality({k \in 1..m : cleanDF.rows[k] = before[i]}) = 1
        /\ \A k \in 1..m : \A i \in 1..Len(before) :
              before[i] = cleanDF.rows[k] =>
                  IF handle_duplicates = First THEN at(k) <= i ELSE at(k) >= i
        /\ dupl_removed = Len(before) - m
        /\ dupl_removed = LoadedDuplicates
        /\ duplicateCount = LoadedDuplicates
        /\ LoadedDuplicates > 0

\* C5: for every dataset with duplicate rows, after the duplicates are
\* resolved with policy first (last), each group of equal rows keeps its
\* first (last) row, the survivors keep their order, and as many rows are
\* removed as the loaded data had duplicates.
C5_KeepPolicy ==
    (pc = "DuplicatesResolved" /\ handle_duplicates \in {First, Last}) =>
        KeepPolicyHolds

\* The same for the datasets that keep a column, which is every dataset
\* but those whose columns hold only nulls.
KeepPolicyWithAColumn ==
    (pc = "DuplicatesResolved" /\ handle_duplicates \in {First, Last}
        /\ ~ empty(beforeDupl)) => KeepPolicyHolds

\* Policy last on data whose all-null column was dropped: the first row is
\* the duplicate that goes.
KeepLastReached ==
    /\ pc = "DuplicatesResolved"
    /\ handle_duplicates = Last
    /\ Len(cleanDF.columns) < Len(df.columns)
    /\ dupl_removed = 1
    /\ Len(cleanDF.rows) = 2
    /\ cleanDF.index = <<1, 2>>

Retries == {"duplicate_retries", "null_retries"}

\* C1: once take_input has failed at a prompt, no prompt follows, the data
\* is not changed and nothing is saved.
C1_AbortOnExhaustion ==
    [][(fatal \cap Retries # {}) =>
          /\ prompts' = prompts
          /\ cleanDF' = cleanDF
          /\ saved' = Unset]_vars

\* C3: after handle_nulls with impute the column has no null, the positions
\* that were null hold one and the same value, and the others are unchanged.
C3_ImputeFillsNulls ==
    (handled # Unset /\ instruction = Impute) =>
        LET old == Series(frame, 1)
            new == Series(handled[1].df, 1)
        IN  /\ ~ handled[1].raised
            /\ Len(new) = Len(old)
            /\ \A i \in 1..Len(new) : new[i] # NaN
            /\ \A i, k \in 1..Len(old) :
                  (old[i] = NaN /\ old[k] = NaN) => new[i] = new[k]
            /\ \A i \in 1..Len(old) : old[i] # NaN => new[i] = old[i]

\* Twice the median of the non-null values.
Median2(d, j) ==
    LET sorted == SortSeq(NonNullValues(d, j), LAMBDA a, b : a < b)
        n == Len(sorted)
    IN  sorted[(n + 1) \div 2] + sorted[(n \div 2) + 1]

\* C7: on impute the imputer is a number: the median of the non-null values
\* when they hold an outlier, else their mean rounded to a whole number.
C7_ImputerOfNonNull ==
    (handled # Unset /\ instruction = Impute) =>
        LET imputer == handled[1].imputer
            values == NonNullValues(frame, 1)
        IN  /\ imputer # NaN
            /\ HasOutlier(frame, 1) => 2 * imputer[1] = Median2(frame, 1)
            /\ ~ HasOutlier(frame, 1) =>
                  /\ imputer[1] % Scale = 0
                  /\ 2 * Len(values) * imputer[1] - 2 * Sum(values)
                        \in (- Len(values) * Scale)..(Len(values) * Scale)

\* C4: handle_nulls with drop removes the rows whose cell in the column is
\* null and no other: n rows less, the others as they were and in order.
C4_DropRemovesNullRows ==
    (null_cmd = Drop /\ pc \in {"NullsResolvedPerColumn", "Crashed"}) =>
        LET j == CHOOSE k \in 1..Len(beforeNulls.columns) :
                     beforeNulls.columns[k] =
                         numericColumns[IF pc = "Crashed" THEN colIdx ELSE colIdx - 1]
        IN  /\ pc # "Crashed"
            /\ cleanDF = dropna_subset(beforeNulls, j)
            /\ Len(cleanDF.rows) =
                  Len(beforeNulls.rows) - null_count(Series(beforeNulls, j))

\* C6: every fatal condition ends the process with a non-zero status, and
\* status zero means the run reached Saved without any.
C6_NonZeroOnFatal ==
    exitStatus # Unset =>
        /\ fatal # {} => exitStatus[1] # 0
        /\ exitStatus[1] = 0 => (pc = "Saved" /\ fatal = {})

\* C10: from HeadersNormalized on, no two columns carry the same name.
C10_UniqueHeaders ==
    pc \in {"HeadersNormalized", "DuplicatesResolved", "NullPrompted",
            "NullsResolvedPerColumn", "Saved"} => Distinct(cleanDF.columns)

=============================================================================
